---- MODULE Spec2Model ----
(***************************************************************************)
(* Verification model of ovk-poc: the Seed negotiation state machine       *)
(* (src/src/seed.ts), the Device orchestration (src/src/device.ts) and the *)
(* Service / CredManager (src/publish/client.js).                          *)
(*                                                                         *)
(* Cryptography is symbolic: a private key is a tagged tuple, a signature  *)
(* or MAC names the key and the message it was computed with, an EC point  *)
(* k1*...*kn*G is the bag of scalars applied to G.  Random draws are fresh *)
(* values numbered by counters.  An optional value (undefined | v) is the  *)
(* sequence <<>> | <<v>>.                                                   *)
(***************************************************************************)
EXTENDS Integers, Sequences, FiniteSets, Bags, TLC

(* ----------------------------- bounds ---------------------------------- *)
\* largest ring of devices taking part in one negotiation ceremony
MaxDevNum == 4
\* accesses (challenges drawn) in one behaviour
MaxChal == 5

VARIABLES
  devNum,       \* number of devices of the ceremony (the ring size N)
  updating,     \* the "update" flag the driver passes in this ceremony
  seeds,        \* SeedImpl.seeds of every device: sequence of seeds
  e,            \* SeedImpl.e of every device: <<>> or <<[meta, sk, idx]>>
  negotiating,  \* Device.negotiating: <<>> or <<[devID, partnerID, devNum, epk]>>
  published,    \* ciphertexts published so far (plaintext: <<devID, epk>>)
  latest,       \* latest[i]: the ciphertext device i published last
  ret,          \* outcome of the last negotiation call of every device
  rounds,       \* rounds[i]: exchange rounds device i has taken part in
  stale         \* device 1 has been handed a partner ciphertext with nothing new

negVars == <<devNum, updating, seeds, e, negotiating, published, latest, ret, rounds, stale>>

VARIABLES
  db,           \* Service.db: user name -> <<>> or <<CredManager>>
  challengeDB,  \* Service.challengeDB: user name -> <<>> or <<array of challenges>>
  alive,        \* FALSE once a call of the service has entered a loop it never
                \* leaves, or an uncaught exception has ended the server process
  clock,        \* Date.now()
  nchal,        \* challenges drawn so far
  nkey,         \* credential keys generated so far
  nsalt,        \* salts r drawn so far
  devCreds,     \* Device.creds of every device: sequence of credential private keys
  out,          \* what the device of the last access produced: the request in flight
  last,         \* the last call of the service and its outcome
  pending       \* <<>>, or the Service.register call that waits at an await

svcVars == <<db, challengeDB, alive, clock, nchal, nkey, nsalt, devCreds, out,
             last, pending>>

vars == <<negVars, svcVars>>

(* ------------------------ symbolic cryptography ------------------------ *)
\* ECPrivKey.gen() inside SeedImpl.negotiate: the ephemeral key of device d
\* for the ceremony that fills seed slot idx
EphKey(d, idx) == <<"eph", d, idx>>

\* the public point sk*G
ToECPubKey(sk) == SetToBag({sk})

\* ECPrivKey.computeDH: sk * pk
ComputeDH(sk, pk) == pk (+) SetToBag({sk})

\* the x coordinate of a point, as the 32 bytes of a seed
XCoord(pt) == <<"x", pt>>

\* the public JWK of a private key (toECPubKey().toJWK()); equalECPubJWK is
\* equality of these values
PubJWK(sk) == <<"pub", sk>>

\* ECDSA P-256: a signature names the signing key and the signed bytes
Sign(sk, m) == [key |-> sk, msg |-> m]
Verify(pk, m, sig) == pk = PubJWK(sig.key) /\ sig.msg = m

\* HMAC-SHA256
HmacMac(k, m) == <<"mac", k, m>>
HmacVerify(k, m, mac) == mac = HmacMac(k, m)

\* HKDF(seed, r, 256) taken as a private scalar: ECPrivKey.fromSecret(d)
HKDF(s, r) == <<"ovk", s, r>>

\* byte strings: UTF8(JSON.stringify(jwk)), UTF8(svcID), CONCAT(a, b)
JSON(jwk) == <<"json", jwk>>
UTF8(str) == <<"utf8", str>>
CONCAT(a, b) == <<"cat", a, b>>

\* the n-th draw of RandUint8Array / ECPrivKey.gen
Challenge(n) == <<"chal", n>>
Salt(n) == <<"r", n>>
CredKey(n) == <<"cred", n>>
AttsKey(d) == <<"atts", d>>

\* a signature made with no key of the system (garbage bytes)
BadSig == [key |-> <<"none">>, msg |-> <<"none">>]

(* ------------------------------ helpers -------------------------------- *)
Some(v) == <<v>>
None == <<>>
Val(o) == o[1]

\* Object.assign(target, src) on records keyed by step number
Assign(target, src) ==
  [k \in (DOMAIN target) \cup (DOMAIN src) |->
      IF k \in DOMAIN src THEN src[k] ELSE target[k]]

Min(S) == CHOOSE x \in S : \A y \in S : x <= y

(* ------------------------- SeedImpl.negotiate -------------------------- *)
\* the seeds pushed by the partner loop: one per partner entry with
\* c >= devNum - 2, in the order Object.entries visits the entries
\* (ascending step numbers); cs is the set of those steps still to visit
\* (variant: the partner's point is taken as it is, without computeDH)
PushedSeedsNoDH(cs, partner, sk) ==
  IF cs = {} THEN <<>> ELSE <<XCoord(partner[Min(cs)])>>

RECURSIVE PushedSeeds(_, _, _)
PushedSeeds(cs, partner, sk) ==
  IF cs = {} THEN <<>>
  ELSE <<XCoord(ComputeDH(sk, partner[Min(cs)]))>>
       \o PushedSeeds(cs \ {Min(cs)}, partner, sk)

\* ans: the DH public keys this call computes
NegotiateAns(sk, mine, partner, n) ==
  LET new == {c + 1 : c \in {c \in DOMAIN partner : c < n - 2 /\ (c + 1) \notin DOMAIN mine}}
  IN [k \in {0} \cup new |->
        IF k = 0 THEN ToECPubKey(sk) ELSE ComputeDH(sk, partner[k - 1])]

\* the steps this device has computed: those of this call, those of earlier
\* calls, and the last step if the seed of this ceremony has been pushed
\* (variant: the steps of earlier calls are not counted)
ComputedNoMine(ans, mine, nseeds, idx, n) ==
  (DOMAIN ans) \cup (IF nseeds = idx + 1 THEN {n - 1} ELSE {})

Computed(ans, mine, nseeds, idx, n) ==
  (DOMAIN ans) \cup (DOMAIN mine) \cup (IF nseeds = idx + 1 THEN {n - 1} ELSE {})

\* (variant: only an update without a seed is refused)
InvalidStateUpdateOnly(update, sds) == update /\ Len(sds) = 0

\* negotiate: an update needs a seed, a first ceremony needs none
InvalidState(update, sds) == (update /\ Len(sds) = 0) \/ (~update /\ Len(sds) # 0)

\* (variant: the meta of the ceremony in progress is not compared)
MetaMismatchNever(eph, meta) == FALSE

\* negotiate: a ceremony is in progress and was started with another meta
MetaMismatch(eph, meta) == eph # None /\ Val(eph).meta # meta

\* (variant: a call made while a ceremony is in progress generates a key)
EphemeralRegenerated(d, sds, eph, meta) ==
  IF eph # None THEN [Val(eph) EXCEPT !.sk = EphKey(d, Val(eph).idx + 1)]
  ELSE [sk |-> EphKey(d, Len(sds)), meta |-> meta, idx |-> Len(sds)]

\* negotiate: the ephemeral data of the ceremony, generated by the first
\* call and used as it is by the later ones
Ephemeral(d, sds, eph, meta) ==
  IF eph # None THEN Val(eph)
  ELSE [sk |-> EphKey(d, Len(sds)), meta |-> meta, idx |-> Len(sds)]

\* negotiate(meta, epk, update) on the seed state (sds, eph).
\* epk is <<>> (undefined) or <<[mine, partner]>>.
\* Result: [throw, seeds, e, completion, epk].
Negotiate(d, sds, eph, meta, epk, update) ==
  IF InvalidState(update, sds)
  THEN [throw |-> "InvalidState", seeds |-> sds, e |-> eph, completion |-> FALSE, epk |-> <<>>]
  ELSE IF MetaMismatch(eph, meta)
  THEN [throw |-> "MetaMismatch", seeds |-> sds, e |-> eph, completion |-> FALSE, epk |-> <<>>]
  ELSE
    LET ee == Ephemeral(d, sds, eph, meta)
        sk == ee.sk
    IN IF epk = None
       THEN [throw |-> "", seeds |-> sds, e |-> Some(ee), completion |-> FALSE,
             epk |-> NegotiateAns(sk, <<>>, <<>>, meta.devNum)]
       ELSE
         LET mine == Val(epk).mine
             partner == Val(epk).partner
             ans == NegotiateAns(sk, mine, partner, meta.devNum)
             sds2 == sds \o PushedSeeds({c \in DOMAIN partner : c >= meta.devNum - 2}, partner, sk)
             computed == Computed(ans, mine, Len(sds2), ee.idx, meta.devNum)
             done == Cardinality(computed) = meta.devNum
         IN [throw |-> "", seeds |-> sds2,
             e |-> IF done THEN None ELSE Some(ee),
             completion |-> done, epk |-> ans]

(* --------------------- SeedImpl: OVK operations ------------------------ *)
\* get seed(): the latest seed (the devices modelled here always hold one)
CurrentSeed(sds) == sds[Len(sds)]

\* SeedImpl.OVK(r, s): the OVK private key for salt r under seed s
OVK(s, r) == HKDF(s, r)

DeriveOVK(sds, r) == PubJWK(OVK(CurrentSeed(sds), r))
\* (variant: the mac does not cover the service id)
MacOVKNoSvc(sds, r, svcID) == HmacMac(OVK(CurrentSeed(sds), r), r)

MacOVK(sds, r, svcID) == HmacMac(OVK(CurrentSeed(sds), r), CONCAT(r, UTF8(svcID)))
\* (variant: the mac is checked under the first seed, not the latest)
VerifyOVKFirstSeed(sds, r, svcID, mac) ==
  HmacVerify(OVK(sds[1], r), CONCAT(r, UTF8(svcID)), mac)

VerifyOVK(sds, r, svcID, mac) ==
  HmacVerify(OVK(CurrentSeed(sds), r), CONCAT(r, UTF8(svcID)), mac)
SignOVK(sds, r, m) == Sign(OVK(CurrentSeed(sds), r), m)

\* (variant: a device is updating only once it holds three seeds)
SeedIsUpdatingThree(sds) == Len(sds) > 2

\* SeedImpl.isUpdating
SeedIsUpdating(sds) == Len(sds) > 1

\* SeedImpl.completeUpdation, called only while SeedIsUpdating: the previous
\* seed is dropped.  Neither Device nor the page scripts call it.
CompleteUpdation(sds) == Tail(sds)

\* (variant: the update is signed with the OVK of the latest seed)
SeedUpdateLatest(sds, prevR, nextOVK) == Sign(OVK(CurrentSeed(sds), prevR), JSON(nextOVK))

\* SeedImpl.update(prevR, nextOVK), called only while SeedIsUpdating:
\* the signature of the previous OVK over the next OVK's JWK
SeedUpdate(sds, prevR, nextOVK) == Sign(OVK(sds[Len(sds) - 1], prevR), JSON(nextOVK))

(* ---------------------- Device: register / authn ----------------------- *)
\* Device.register(svc, ovkm?) of device d with seed list sds and stored
\* credentials dcreds.  ovkmOpt is <<>> or <<[r, mac]>>.  nk numbers the
\* generated credential key, ns the salt drawn on initial registration.
\* Result: [throw, creds, req]; creds is the credential store after the call.
DeviceRegister(d, sds, dcreds, svcID, chal, ovkmOpt, nk, ns) ==
  LET cred_sk == CredKey(nk)
      cred_pk == PubJWK(cred_sk)
      sig_atts == Sign(AttsKey(d), CONCAT(chal, JSON(cred_pk)))
      creds2 == Append(dcreds, cred_sk)
      cred == [jwk |-> cred_pk, atts |-> [sig |-> sig_atts, key |-> PubJWK(AttsKey(d))]]
  IN IF ovkmOpt # None
     THEN LET r == Val(ovkmOpt).r
              mac == Val(ovkmOpt).mac
          IN IF ~VerifyOVK(sds, r, svcID, mac)
             THEN [throw |-> "OvkVerifyFailed", creds |-> creds2, req |-> None]
             ELSE [throw |-> "", creds |-> creds2,
                   req |-> Some([cred |-> cred,
                                 ovkm |-> [sig |-> SignOVK(sds, r, JSON(cred_pk))]])]
     ELSE LET r == Salt(ns)
          IN [throw |-> "", creds |-> creds2,
              req |-> Some([cred |-> cred,
                            ovkm |-> [ovk_jwk |-> DeriveOVK(sds, r), r |-> r,
                                      mac |-> MacOVK(sds, r, svcID)]])]

\* the index of the first element of seq that satisfies Test, 0 if none
FindIndex(seq, Test(_)) ==
  IF \E k \in 1 .. Len(seq) : Test(seq[k])
  THEN Min({k \in 1 .. Len(seq) : Test(seq[k])}) ELSE 0

\* (variant: no posted candidate is looked for)
FoundCandidateNone(sds, svcID, next) == 0

\* authn: the index of the first candidate of ovkm.next whose (r, mac)
\* verifies under the device's latest seed, 0 if there is none
FoundCandidate(sds, svcID, next) ==
  FindIndex(next, LAMBDA o : VerifyOVK(sds, o.r, svcID, o.mac))

\* Device.authn(svc, ovkm): svcCreds are the registered public JWKs the
\* service listed, ovkm is [r, mac, next] with next the candidates listed.
\* Result: [throw, req], req = [cred_jwk, sig, updating], updating optional.
DeviceAuthn(sds, dcreds, svcID, chal, svcCreds, ovkm, ns) ==
  LET ci == FindIndex(dcreds, LAMBDA sk : \E k \in 1 .. Len(svcCreds) : svcCreds[k] = PubJWK(sk))
  IN IF ci = 0 THEN [throw |-> "NoMatchingCredential", req |-> None]
     ELSE
       LET sk == dcreds[ci]
           cred_jwk == PubJWK(sk)
           sig == Sign(sk, chal)
           ni == FoundCandidate(sds, svcID, ovkm.next)
       IN IF ~SeedIsUpdating(sds)
          THEN [throw |-> "", req |-> Some([cred_jwk |-> cred_jwk, sig |-> sig, updating |-> None])]
          ELSE IF ni # 0
          THEN [throw |-> "",
                req |-> Some([cred_jwk |-> cred_jwk, sig |-> sig,
                              updating |-> Some([update |-> SeedUpdate(sds, ovkm.r, ovkm.next[ni].ovk_jwk),
                                                 ovkm |-> ovkm.next[ni]])])]
          ELSE LET r == Salt(ns)
                   ovk == DeriveOVK(sds, r)
               IN [throw |-> "",
                   req |-> Some([cred_jwk |-> cred_jwk, sig |-> sig,
                                 updating |-> Some([update |-> SeedUpdate(sds, ovkm.r, ovk),
                                                    ovkm |-> [ovk_jwk |-> ovk, r |-> r,
                                                              mac |-> MacOVK(sds, r, svcID)]])])]

\* Device.authn of the published build: the same, but no update message is
\* sent when the seed is not updating or the trusted OVKM of the response
\* verifies under the latest seed
DeviceAuthnPublished(sds, dcreds, svcID, chal, svcCreds, ovkm, ns) ==
  LET a == DeviceAuthn(sds, dcreds, svcID, chal, svcCreds, ovkm, ns)
  IN IF a.throw = "" /\ (~SeedIsUpdating(sds) \/ VerifyOVK(sds, ovkm.r, svcID, ovkm.mac))
     THEN [throw |-> "", req |-> Some([Val(a.req) EXCEPT !.updating = None])]
     ELSE a

(* ---------------------------- CredManager ----------------------------- *)
\* the migration window: 3 minutes
migrating_date_ms == 3 * 60 * 1000

\* Array.filter
Filter(seq, Test(_)) == SelectSeq(seq, Test)

\* (variant: the first credential is not bound to the registered OVK)
CMInitUnbound(cred_jwk, ovkm) ==
  [creds |-> <<[jwk |-> cred_jwk, ovk |-> cred_jwk]>>,
   ovkm |-> [ovk_jwk |-> ovkm.ovk_jwk, r |-> ovkm.r, mac |-> ovkm.mac],
   next |-> None]

\* CredManager.init(cred_jwk, ovkm)
CMInit(cred_jwk, ovkm) ==
  [creds |-> <<[jwk |-> cred_jwk, ovk |-> ovkm.ovk_jwk]>>,
   ovkm |-> [ovk_jwk |-> ovkm.ovk_jwk, r |-> ovkm.r, mac |-> ovkm.mac],
   next |-> None]

\* CredManager.getOVK / isCred / add
CMGetOVK(cm) == cm.ovkm.ovk_jwk
CMIsCred(cm, cred_jwk) == \E k \in 1 .. Len(cm.creds) : cm.creds[k].jwk = cred_jwk
\* (variant: the new credential is not bound to the trusted OVK)
CMAddUnbound(cm, cred_jwk) ==
  [cm EXCEPT !.creds = Append(@, [jwk |-> cred_jwk, ovk |-> cred_jwk])]

CMAdd(cm, cred_jwk) ==
  [cm EXCEPT !.creds = Append(@, [jwk |-> cred_jwk, ovk |-> CMGetOVK(cm)])]

\* the reduce of isUpdating over creds[k..], row being ovks[0] so far.
\* ovks[0] collects the OVK of every credential.  When the OVK of a
\* credential is met again in ovks[count] the loop pushes it to
\* ovks[count + 1], the row it visits next; there the OVK matches itself and
\* is pushed to ovks[count + 2], and so on: the loop over count never ends.
RECURSIVE CountOvks(_, _, _)
CountOvks(creds, k, row) ==
  IF k > Len(creds) THEN [diverges |-> FALSE, row |-> row]
  ELSE IF \E idx \in 1 .. Len(row) : row[idx] = creds[k].ovk
  THEN [diverges |-> TRUE, row |-> row]
  ELSE CountOvks(creds, k + 1, Append(row, creds[k].ovk))

\* firstTime of the candidate for ovk; 0 stands for undefined (not a candidate)
FirstTime(candidates, ovk) ==
  LET ci == FindIndex(candidates, LAMBDA c : c.ovk_jwk = ovk)
  IN IF ci = 0 THEN 0 ELSE candidates[ci].firstTime

\* (variant: the last of the tied OVKs is picked)
PickRegisteredLast(row, k, candidates, registered, ovk) == row[Len(row)]

\* the loop that picks among the OVKs row[k..] tied for the most credentials:
\* if (!registered || (r && r < registered)) { registered = r; ovk = candidate }
RECURSIVE PickRegistered(_, _, _, _, _)
PickRegistered(row, k, candidates, registered, ovk) ==
  IF k > Len(row) THEN ovk
  ELSE LET r == FirstTime(candidates, row[k])
       IN IF registered = 0 \/ (r # 0 /\ r < registered)
          THEN PickRegistered(row, k + 1, candidates, r, row[k])
          ELSE PickRegistered(row, k + 1, candidates, registered, ovk)

\* (variant: the time-out resolution clears next and prunes nothing)
CMIsUpdatingNoPrune(cm, now) ==
  IF cm.next = None THEN [diverges |-> FALSE, ret |-> FALSE, cm |-> cm]
  ELSE IF now - Val(cm.next).startTime <= migrating_date_ms
  THEN [diverges |-> FALSE, ret |-> TRUE, cm |-> cm]
  ELSE [diverges |-> FALSE, ret |-> FALSE, cm |-> [cm EXCEPT !.next = None]]

\* (variant: a migration in progress is not reported)
CMIsUpdatingNever(cm, now) == [diverges |-> FALSE, ret |-> FALSE, cm |-> cm]

\* CredManager.isUpdating() at time now.
\* Result: [diverges, ret, cm]; cm is the manager after the call.
CMIsUpdating(cm, now) ==
  IF cm.next = None THEN [diverges |-> FALSE, ret |-> FALSE, cm |-> cm]
  ELSE IF now - Val(cm.next).startTime <= migrating_date_ms
  THEN [diverges |-> FALSE, ret |-> TRUE, cm |-> cm]
  ELSE
    LET ovks == CountOvks(cm.creds, 1, <<>>)
        cands == Val(cm.next).candidates
        ovk == IF Len(ovks.row) = 1 THEN ovks.row[1]
               ELSE PickRegistered(ovks.row, 1, cands, 0, <<>>)
        ci == FindIndex(cands, LAMBDA c : c.ovk_jwk = ovk)
    IN IF ovks.diverges THEN [diverges |-> TRUE, ret |-> FALSE, cm |-> cm]
       ELSE [diverges |-> FALSE, ret |-> FALSE,
             cm |-> [creds |-> Filter(cm.creds, LAMBDA c : c.ovk = ovk),
                     ovkm |-> IF ci = 0 THEN cm.ovkm
                              ELSE [ovk_jwk |-> cands[ci].ovk_jwk, r |-> cands[ci].r,
                                    mac |-> cands[ci].mac],
                     next |-> None]]

\* (variant: one credential bound to the candidate is enough)
QuorumAny(cred_num, next_ovk_num) == next_ovk_num > 0

\* (variant: half of the credentials is enough)
QuorumHalf(cred_num, next_ovk_num) == cred_num <= 2 * next_ovk_num

\* the test of addUpdating: cred_num / 2 < next_ovk_num
Quorum(cred_num, next_ovk_num) == cred_num < 2 * next_ovk_num

\* (variant: a credential that is not registered is taken for the first)
CredIndexFirst(cm, cred_jwk) ==
  IF \E k \in 1 .. Len(cm.creds) : cm.creds[k].jwk = cred_jwk
  THEN Min({k \in 1 .. Len(cm.creds) : cm.creds[k].jwk = cred_jwk}) ELSE 1

\* addUpdating: creds.findIndex by public JWK, 0 for -1
CredIndex(cm, cred_jwk) == FindIndex(cm.creds, LAMBDA c : c.jwk = cred_jwk)

\* (variant: the candidate is recorded with every update message)
NextCandidatesAppend(next1, ovk_jwk, r, mac, now) ==
  [next1 EXCEPT !.candidates =
     Append(@, [ovk_jwk |-> ovk_jwk, r |-> r, mac |-> mac, firstTime |-> now])]

\* addUpdating: the candidate is recorded in next unless its OVK is there
NextCandidates(next1, ovk_jwk, r, mac, now) ==
  IF \E k \in 1 .. Len(next1.candidates) : next1.candidates[k].ovk_jwk = ovk_jwk
  THEN next1
  ELSE [next1 EXCEPT !.candidates =
          Append(@, [ovk_jwk |-> ovk_jwk, r |-> r, mac |-> mac, firstTime |-> now])]

\* CredManager.addUpdating(cred_jwk, ovk_jwk, r, mac) at time now.
\* Result: [ret, cm].
CMAddUpdating(cm, cred_jwk, ovk_jwk, r, mac, now) ==
  LET idx == CredIndex(cm, cred_jwk)
  IN IF idx = 0 THEN [ret |-> FALSE, cm |-> cm]
     ELSE
       LET creds2 == [cm.creds EXCEPT ![idx].ovk = ovk_jwk]
           next1 == IF cm.next = None THEN [candidates |-> <<>>, startTime |-> now]
                    ELSE Val(cm.next)
           next2 == NextCandidates(next1, ovk_jwk, r, mac, now)
           cred_num == Len(creds2)
           bound == Filter(creds2, LAMBDA c : c.ovk = ovk_jwk)
           next_ovk_num == Len(bound)
       IN IF Quorum(cred_num, next_ovk_num)
          THEN [ret |-> TRUE,
                cm |-> [creds |-> bound,
                        ovkm |-> [ovk_jwk |-> ovk_jwk, r |-> r, mac |-> mac],
                        next |-> None]]
          ELSE [ret |-> TRUE,
                cm |-> [creds |-> creds2, ovkm |-> cm.ovkm, next |-> Some(next2)]]

\* the public JWKs of the registered credentials: creds.map((c) => c.jwk)
CredJWKs(cm) == [k \in 1 .. Len(cm.creds) |-> cm.creds[k].jwk]

\* CredManager.getCreds() at time now.  next lists the candidates while
\* the migration is in progress and is empty otherwise.
\* Result: [diverges, cm, creds, ovkm].
CMGetCreds(cm, now) ==
  LET u == CMIsUpdating(cm, now)
  IN [diverges |-> u.diverges, cm |-> u.cm, creds |-> CredJWKs(u.cm),
      ovkm |-> [ovk_jwk |-> u.cm.ovkm.ovk_jwk, r |-> u.cm.ovkm.r, mac |-> u.cm.ovkm.mac,
                next |-> IF u.ret
                         THEN [k \in 1 .. Len(Val(u.cm.next).candidates) |->
                                 [ovk_jwk |-> Val(u.cm.next).candidates[k].ovk_jwk,
                                  r |-> Val(u.cm.next).candidates[k].r,
                                  mac |-> Val(u.cm.next).candidates[k].mac]]
                         ELSE <<>>]]

(* ------------------------------ Service -------------------------------- *)
\* The operations below act on the state the service keeps for one user:
\* cmo = db[name] (<<>> when undefined) and chq = challengeDB[name] (<<>>
\* when undefined, else <<the array of pending challenges>>).
\* Outcomes: "true" / "false" are the returned booleans, "throw" is the
\* TypeError of challengeDB[name].pop() on undefined, "diverge" is a call
\* that never returns.

\* Service.startAuthn(name); n numbers the challenge drawn.
\* Result: [diverges, cmo, chq, resp].
SvcStartAuthn(cmo, chq, n, now) ==
  LET chq2 == Some(<<Challenge(n)>>)
  IN IF cmo = None
     THEN [diverges |-> FALSE, cmo |-> cmo, chq |-> chq2,
           resp |-> [challenge |-> Challenge(n)]]
     ELSE LET g == CMGetCreds(Val(cmo), now)
          IN [diverges |-> g.diverges, cmo |-> Some(g.cm), chq |-> chq2,
              resp |-> [challenge |-> Challenge(n), creds |-> g.creds, ovkm |-> g.ovkm]]

\* (variant: the signed message is compared, the signing key is not)
OvkSigMessageOnly(cm, cred, ovkm) == ovkm.sig.msg = JSON(cred.jwk)

\* register: ovk.verify(UTF8(JSON.stringify(cred.jwk)), sig) under cm.getOVK()
OvkSigOK(cm, cred, ovkm) == Verify(CMGetOVK(cm), JSON(cred.jwk), ovkm.sig)

\* (variant: every registration is taken for a new account)
IsNewAccountAlways(cmo) == TRUE

\* register: if (!cm), the user is not in the database
IsNewAccount(cmo) == cmo = None

\* Service.register(name, cred, ovkm).
\* Result: [ret, cmo, chq, chal, how]; chal is the popped challenge, if any,
\* how tells which step decided.
SvcRegister(cmo, chq, cred, ovkm, now) ==
  IF chq = None
  THEN [ret |-> "throw", cmo |-> cmo, chq |-> chq, chal |-> None, how |-> "nostack"]
  ELSE IF Val(chq) = <<>>
  THEN [ret |-> "false", cmo |-> cmo, chq |-> chq, chal |-> None, how |-> "nochal"]
  ELSE
    LET q == Val(chq)
        challenge == q[Len(q)]
        chq2 == Some(SubSeq(q, 1, Len(q) - 1))
        R(rt, c, h) == [ret |-> rt, cmo |-> c, chq |-> chq2, chal |-> Some(challenge), how |-> h]
    IN IF ~Verify(cred.atts.key, CONCAT(challenge, JSON(cred.jwk)), cred.atts.sig)
       THEN R("false", cmo, "badatts")
       ELSE IF IsNewAccount(cmo)
       THEN (IF "ovk_jwk" \in DOMAIN ovkm
             THEN R("true", Some(CMInit(cred.jwk, ovkm)), "init")
             ELSE R("false", cmo, "noovk"))
       ELSE IF "ovk_jwk" \in DOMAIN ovkm THEN R("false", cmo, "doubleinit")
       ELSE LET u == CMIsUpdating(Val(cmo), now)
            IN IF u.diverges THEN R("diverge", cmo, "diverge")
               ELSE IF u.ret THEN R("false", Some(u.cm), "updating")
               ELSE IF ~OvkSigOK(u.cm, cred, ovkm)
               THEN R("false", Some(u.cm), "badsig")
               ELSE R("true", Some(CMAdd(u.cm, cred.jwk)), "added")

\* (variant: the update message is not verified)
UpdateSigAny(cm, ovkm_next, update) == TRUE

\* update: ovk.verify(UTF8(JSON.stringify(ovkm_next.ovk_jwk)), update) under
\* the OVK trusted now
UpdateSigOK(cm, ovkm_next, update) == Verify(CMGetOVK(cm), JSON(ovkm_next.ovk_jwk), update)

\* Service.update(name, cred_jwk, update, ovkm_next).
\* Result: [ret, cmo, how]; how tells which step decided.
SvcUpdate(cmo, cred_jwk, update, ovkm_next, now) ==
  IF cmo = None THEN [ret |-> FALSE, cmo |-> cmo, how |-> "nouser"]
  ELSE IF ~UpdateSigOK(Val(cmo), ovkm_next, update)
  THEN [ret |-> FALSE, cmo |-> cmo, how |-> "badsig"]
  ELSE LET a == CMAddUpdating(Val(cmo), cred_jwk, ovkm_next.ovk_jwk, ovkm_next.r,
                              ovkm_next.mac, now)
       IN [ret |-> a.ret, cmo |-> Some(a.cm), how |-> IF a.ret THEN "applied" ELSE "notcred"]

\* (variant: the credential is not looked up in cm.creds)
AuthnAcceptsAnyCred(cmo, cred_jwk, challenge, sig) ==
  cmo # None /\ Verify(cred_jwk, challenge, sig)

\* authn, once the challenge is popped: the user exists, cred_jwk is
\* registered and sig verifies over the challenge under cred_jwk
AuthnAccepts(cmo, cred_jwk, challenge, sig) ==
  /\ cmo # None
  /\ CMIsCred(Val(cmo), cred_jwk)
  /\ Verify(cred_jwk, challenge, sig)

\* Service.authn(name, cred_jwk, sig, updating); updating is optional.
\* Result: [ret, cmo, chq, chal, how]; how is the outcome of update ("none"
\* when there was no updating part).
SvcAuthn(cmo, chq, cred_jwk, sig, upd, now) ==
  LET u == IF upd = None THEN [ret |-> TRUE, cmo |-> cmo, how |-> "none"]
           ELSE SvcUpdate(cmo, cred_jwk, Val(upd).update, Val(upd).ovkm, now)
  IN IF ~u.ret THEN [ret |-> "false", cmo |-> u.cmo, chq |-> chq, chal |-> None, how |-> u.how]
     ELSE IF chq = None
     THEN [ret |-> "throw", cmo |-> u.cmo, chq |-> chq, chal |-> None, how |-> u.how]
     ELSE IF Val(chq) = <<>>
     THEN [ret |-> "false", cmo |-> u.cmo, chq |-> chq, chal |-> None, how |-> u.how]
     ELSE
       LET q == Val(chq)
           challenge == q[Len(q)]
           chq2 == Some(SubSeq(q, 1, Len(q) - 1))
           ok == AuthnAccepts(u.cmo, cred_jwk, challenge, sig)
       IN [ret |-> IF ok THEN "true" ELSE "false", cmo |-> u.cmo, chq |-> chq2,
           chal |-> Some(challenge), how |-> u.how]

\* Service.delete(name)
SvcDelete(cmo, chq) == [cmo |-> None, chq |-> chq]

(* ------------------- Device: negotiation wrapper ----------------------- *)
Devs == 1 .. devNum

\* the ring: every device consumes the DH material of its predecessor
PartnerOf(i) == IF i = 1 THEN devNum ELSE i - 1

\* the users and the devices of the registration scenarios, the service id
Users == {"alice"}
SvcDevs == {"A", "B", "C"}
Before(x, d) == <<x, d>> \in {<<"A", "B">>, <<"A", "C">>, <<"B", "C">>}
SvcID == "svc1"

\* last: op is the operation called, req the request as it arrived, pre and
\* prechq the user's CredManager and challenge stack before the call, now
\* the time of the call, chal the challenge the call popped, second tells
\* that an earlier call already answered the challenge the request answers
NoCall == [op |-> "none", user |-> "", dev |-> "", tamper |-> "", ret |-> "", how |-> "none", chal |-> None,
           req |-> None, pre |-> None, prechq |-> None, now |-> 0, second |-> FALSE]

\* out: kind is "register" / "authn" when device dev produced a request
\* req for challenge chal, "thrown" when Device.register threw err; ovkm is
\* the OVKM handed to Device.register and seed the device's seed then;
\* used tells that a register / authn call has answered chal already,
\* reset that Service.delete was called for the user after chal was issued,
\* had is the device's credential store before it computed the request
NoOut == [kind |-> "none", dev |-> "", err |-> "", chal |-> None, req |-> None, ovkm |-> None,
          seed |-> None, used |-> FALSE, reset |-> FALSE, had |-> <<>>]

\* Service.gen(id) and Device.gen(name, seed): nothing registered yet
InitService ==
  /\ db = [u \in Users |-> None]
  /\ challengeDB = [u \in Users |-> None]
  /\ alive = TRUE
  /\ clock = 1
  /\ nchal = 0 /\ nkey = 0 /\ nsalt = 0
  /\ devCreds = [d \in SvcDevs |-> <<>>]
  /\ out = NoOut
  /\ last = NoCall
  /\ pending = None

\* the seed every device holds before an update ceremony
OldSeed == XCoord(SetToBag({<<"eph", 0, 0>>}))

InitNeg ==
  /\ devNum \in 2 .. MaxDevNum
  /\ updating \in BOOLEAN
  /\ seeds = [i \in 1 .. MaxDevNum |-> IF updating /\ i <= devNum THEN <<OldSeed>> ELSE <<>>]
  /\ e = [i \in 1 .. MaxDevNum |-> None]
  /\ negotiating = [i \in 1 .. MaxDevNum |-> None]
  /\ published = {}
  /\ latest = [i \in 1 .. MaxDevNum |-> None]
  /\ ret = [i \in 1 .. MaxDevNum |-> "new"]
  /\ rounds = [i \in 1 .. MaxDevNum |-> 0]
  /\ stale = FALSE
  /\ InitService

\* Device.initSeedNegotiation(pw, devID, partnerID, devNum, updating)
InitSeedNegotiation(i) ==
  /\ i \in Devs
  /\ ret[i] = "new"
  /\ LET meta == [id |-> i, partnerID |-> PartnerOf(i), devNum |-> devNum]
         r == Negotiate(i, seeds[i], e[i], meta, None, updating)
         c == <<i, r.epk>>
     IN /\ r.throw = ""
        /\ negotiating' = [negotiating EXCEPT ![i] =
              Some([devID |-> i, partnerID |-> PartnerOf(i), devNum |-> devNum,
                    epk |-> [mine |-> <<>>, partner |-> <<>>]])]
        /\ seeds' = [seeds EXCEPT ![i] = r.seeds]
        /\ e' = [e EXCEPT ![i] = r.e]
        /\ published' = published \cup {c}
        /\ latest' = [latest EXCEPT ![i] = Some(c)]
        /\ ret' = [ret EXCEPT ![i] = "init"]
        /\ UNCHANGED <<devNum, updating, rounds, stale>>
        /\ UNCHANGED svcVars

\* (variant: the negotiation record is kept after completion)
NegotiatingKept(ng, completion, mine2, partner2) ==
  Some([ng EXCEPT !.epk = [mine |-> mine2, partner |-> partner2]])

\* this.negotiating at the end of a call of seedNegotiating that did not
\* throw: undefined on completion
NegotiatingAfter(ng, completion, mine2, partner2) ==
  IF completion THEN None
  ELSE Some([ng EXCEPT !.epk = [mine |-> mine2, partner |-> partner2]])

\* Device.seedNegotiating(ciphertext, updating) on an arrived ciphertext c
\* (its plaintext <<devID, epk>>).  The call throws when no negotiation is
\* initialised, and then changes nothing; it rethrows what Seed.negotiate
\* throws, after the partner map has been merged.
SeedNegotiating(i, c) ==
  IF negotiating[i] = None
  THEN UNCHANGED <<negotiating, seeds, e, published, latest, ret>>
  ELSE
    \E ng \in {Val(negotiating[i])} :
    \E partner2 \in {IF c[1] = ng.partnerID THEN Assign(ng.epk.partner, c[2])
                     ELSE ng.epk.partner} :
    \E r \in {Negotiate(i, seeds[i], e[i],
                        [id |-> ng.devID, partnerID |-> ng.partnerID, devNum |-> ng.devNum],
                        Some([mine |-> ng.epk.mine, partner |-> partner2]), updating)} :
    \E mine2 \in {Assign(ng.epk.mine, r.epk)} :
      /\ seeds' = [seeds EXCEPT ![i] = r.seeds]
      /\ e' = [e EXCEPT ![i] = r.e]
      /\ IF r.throw # ""
         THEN /\ negotiating' = [negotiating EXCEPT ![i] =
                    Some([ng EXCEPT !.epk = [mine |-> ng.epk.mine, partner |-> partner2]])]
              /\ UNCHANGED <<published, latest, ret>>
         ELSE /\ negotiating' = [negotiating EXCEPT ![i] =
                    NegotiatingAfter(ng, r.completion, mine2, partner2)]
              /\ published' = published \cup {<<ng.devID, mine2>>}
              /\ latest' = [latest EXCEPT ![i] = Some(<<ng.devID, mine2>>)]
              /\ ret' = [ret EXCEPT ![i] = IF r.completion THEN "done" ELSE "more"]

\* the driver hands device i any ciphertext published so far: old ones,
\* duplicates and ciphertexts of devices other than the partner included
Deliver(i, c) ==
  /\ i \in Devs
  /\ c \in published
  /\ SeedNegotiating(i, c)
  /\ stale' = (stale \/ (/\ i = 1
                         /\ negotiating[i] # None
                         /\ c[1] = PartnerOf(i)
                         /\ DOMAIN c[2] \subseteq DOMAIN Val(negotiating[i]).epk.partner))
  /\ UNCHANGED <<devNum, updating, rounds>>
  /\ UNCHANGED svcVars

\* the driver hands device i the ciphertext its partner published last.
\* rounds[i] counts exchange rounds: the k-th round of device i is a
\* delivery of what its partner published in (or after) the partner's
\* round k-1; round 0 is initSeedNegotiation.
DeliverLatest(i) ==
  /\ i \in Devs
  /\ negotiating[i] # None
  /\ latest[PartnerOf(i)] # None
  /\ SeedNegotiating(i, Val(latest[PartnerOf(i)]))
  /\ rounds' = [rounds EXCEPT ![i] = Min({rounds[i], rounds[PartnerOf(i)]}) + 1]
  /\ UNCHANGED <<devNum, updating, stale>>
  /\ UNCHANGED svcVars

NextNeg ==
  \/ \E i \in 1 .. MaxDevNum : InitSeedNegotiation(i)
  \/ \E i \in 1 .. MaxDevNum : \E c \in published : Deliver(i, c)

SpecNeg == InitNeg /\ [][NextNeg]_vars

NextRounds ==
  \/ \E i \in 1 .. MaxDevNum : InitSeedNegotiation(i)
  \/ \E i \in 1 .. MaxDevNum : DeliverLatest(i)

\* every device keeps receiving its partner's latest map
SpecRounds ==
  /\ InitNeg /\ [][NextRounds]_vars
  /\ \A i \in 1 .. MaxDevNum : WF_vars(InitSeedNegotiation(i)) /\ WF_vars(DeliverLatest(i))

\* The application calls negotiate on the Seed of device i with a meta, an
\* update flag and an epk of its choosing: undefined, or the map the
\* partner named in meta published last.  last records the call; the
\* ceremony is followed up to one such call.
Metas(i) ==
  {[id |-> i, partnerID |-> p, devNum |-> dn] :
     p \in Devs \ {i}, dn \in {n \in {devNum - 1, devNum, devNum + 1} : n >= 2}}
Epks(meta) ==
  {None} \cup {Some([mine |-> <<>>, partner |-> Val(latest[q])[2]]) :
                 q \in {x \in {meta.partnerID} : latest[x] # None}}
NegotiateCall(i, meta, epk, upd) ==
  /\ i \in Devs
  /\ last = NoCall
  /\ \E r \in {Negotiate(i, seeds[i], e[i], meta, epk, upd)} :
       /\ seeds' = [seeds EXCEPT ![i] = r.seeds]
       /\ e' = [e EXCEPT ![i] = r.e]
       /\ last' = [op |-> "negotiate", dev |-> i, meta |-> meta, update |-> upd, epk |-> epk,
                   throw |-> r.throw, completion |-> r.completion]
  /\ UNCHANGED <<devNum, updating, negotiating, published, latest, ret, rounds, stale>>
  /\ UNCHANGED <<db, challengeDB, alive, clock, nchal, nkey, nsalt, devCreds, out, pending>>

\* the largest ceremony in which the call is followed
CallsDevNum == 3

\* the steps of the ceremony before the call
InitBeforeCall(i) == last = NoCall /\ InitSeedNegotiation(i)
DeliverBeforeCall(i, c) == last = NoCall /\ Deliver(i, c)

NextCalls ==
  \/ \E i \in 1 .. MaxDevNum : InitBeforeCall(i)
  \/ \E i \in 1 .. MaxDevNum : \E c \in published : DeliverBeforeCall(i, c)
  \/ \E i \in Devs : \E meta \in Metas(i) : \E epk \in Epks(meta) : \E upd \in BOOLEAN :
       NegotiateCall(i, meta, epk, upd)

\* the ceremony, with one call of negotiate made at any time with any input
InitCalls == InitNeg /\ devNum <= CallsDevNum
SpecCalls == InitCalls /\ [][NextCalls]_vars

(* ------------- devices and service: registration, login ---------------- *)
\* the seed the devices share after their first ceremony
FirstSeed == XCoord(SetToBag({EphKey(d, 0) : d \in SvcDevs}))

\* three devices that completed one ceremony together, and a fresh service
InitSvc ==
  /\ devNum = Cardinality(SvcDevs)
  /\ updating = FALSE
  /\ seeds = [d \in SvcDevs |-> <<FirstSeed>>]
  /\ e = [d \in SvcDevs |-> None]
  /\ negotiating = [d \in SvcDevs |-> None]
  /\ published = {}
  /\ latest = [d \in SvcDevs |-> None]
  /\ ret = [d \in SvcDevs |-> "done"]
  /\ rounds = [d \in SvcDevs |-> 0]
  /\ stale = FALSE
  /\ InitService

\* the response of startAuthn lists credentials: the user is registered
Known(resp) == "creds" \in DOMAIN resp

\* what the access form does with the response of startAuthn.
\* Button "register": Dev.register without OVKM unless the user is known.
\* Button "login": Dev.authn, and when it throws Dev.register with the
\* OVKM of the response (seamless registration).
\* A click of the button that does not apply ("register" for a known user,
\* "login" for an unknown one) ends the handler with a log line; the
\* clicks followed here are those where the device goes on.
DeviceStep(d, resp, button) ==
  IF (button = "register") = Known(resp)
  THEN FALSE
  ELSE IF button = "register"
  THEN \E r \in {DeviceRegister(d, seeds[d], devCreds[d], SvcID, resp.challenge, None,
                                   nkey + 1, nsalt + 1)} :
            /\ devCreds' = [devCreds EXCEPT ![d] = r.creds]
            /\ out' =
                  [kind |-> "register", dev |-> d, err |-> "", chal |-> Some(resp.challenge), req |-> r.req,
                   ovkm |-> None, seed |-> Some(CurrentSeed(seeds[d])), used |-> FALSE, reset |-> FALSE,
                   had |-> devCreds[d]]
            /\ nkey' = nkey + 1 /\ nsalt' = nsalt + 1
  ELSE
    \E a \in {DeviceAuthn(seeds[d], devCreds[d], SvcID, resp.challenge, resp.creds, resp.ovkm,
                          nsalt + 1)} :
      IF a.throw = ""
      THEN \E fresh \in {/\ Val(a.req).updating # None
                         /\ Val(Val(a.req).updating).ovkm.r = Salt(nsalt + 1)} :
             /\ nsalt' = IF fresh THEN nsalt + 1 ELSE nsalt
             /\ out' =
                   [kind |-> "authn", dev |-> d, err |-> "", chal |-> Some(resp.challenge), req |-> a.req,
                    ovkm |-> None, seed |-> Some(CurrentSeed(seeds[d])), used |-> FALSE, reset |-> FALSE,
                   had |-> devCreds[d]]
             /\ UNCHANGED <<nkey, devCreds>>
      ELSE \E given \in {[r |-> resp.ovkm.r, mac |-> resp.ovkm.mac]} :
              \E r \in {DeviceRegister(d, seeds[d], devCreds[d], SvcID, resp.challenge,
                                       Some(given), nkey + 1, nsalt + 1)} :
                /\ devCreds' = [devCreds EXCEPT ![d] = r.creds]
                /\ out' =
                      [kind |-> IF r.throw = "" THEN "register" ELSE "thrown", dev |-> d, err |-> r.throw,
                       chal |-> Some(resp.challenge), req |-> r.req,
                       ovkm |-> Some(given), seed |-> Some(CurrentSeed(seeds[d])), used |-> FALSE, reset |-> FALSE,
                   had |-> devCreds[d]]
                /\ nkey' = nkey + 1
                /\ UNCHANGED nsalt

\* The devices are interchangeable: they are named in the order of their
\* first access.
InOrder(d) == \A x \in SvcDevs : Before(x, d) => devCreds[x] # <<>>

\* the user presses a button of the access form on device d: POST /access
\* (Service.startAuthn), then the device computes its request
Access(d, u, button) ==
  /\ alive
  /\ nchal < MaxChal
  /\ InOrder(d)
  /\ \E s \in {SvcStartAuthn(db[u], challengeDB[u], nchal + 1, clock)} :
       /\ nchal' = nchal + 1
       /\ challengeDB' = [challengeDB EXCEPT ![u] = s.chq]
       /\ last' = [NoCall EXCEPT !.op = "startAuthn", !.user = u, !.dev = d,
                                 !.ret = IF s.diverges THEN "diverge" ELSE "true",
                                 !.pre = db[u], !.prechq = challengeDB[u], !.now = clock]
       /\ IF s.diverges
          THEN /\ alive' = FALSE
               /\ UNCHANGED <<db, nkey, nsalt, devCreds, out>>
          ELSE /\ alive' = TRUE
               /\ db' = [db EXCEPT ![u] = s.cmo]
               /\ DeviceStep(d, s.resp, button)
  /\ UNCHANGED <<clock, pending>>
  /\ UNCHANGED negVars

\* a key no device holds
AttackerKey == <<"cred", 0>>
\* an OVKM made from a seed no device holds
AttackerSeed == XCoord(SetToBag({EphKey("X", 0)}))
AttackerOVKM ==
  [ovk_jwk |-> PubJWK(OVK(AttackerSeed, Salt(0))), r |-> Salt(0),
   mac |-> HmacMac(OVK(AttackerSeed, Salt(0)), CONCAT(Salt(0), UTF8(SvcID)))]

\* the register request as it reaches the service
\* ("ovkm": the {sig} part is replaced by an OVKM of the sender's making;
\* the attestation covers the challenge and cred.jwk only)
RegTampers == {"none", "badatts", "badsig", "ovkm"}
RegRequest(o, tamper) ==
  LET rq == Val(o.req)
  IN IF tamper = "badatts" THEN [rq EXCEPT !.cred.atts.sig = BadSig]
     ELSE IF tamper = "badsig" THEN [rq EXCEPT !.ovkm = [sig |-> BadSig]]
     ELSE IF tamper = "ovkm"
     THEN [rq EXCEPT !.ovkm = AttackerOVKM]
     ELSE rq

\* the login request as it reaches the service
AuthnTampers == {"none", "badsig", "badupd", "attacker"}
\* An observer of a login request sends its update message on with a
\* public JWK of its choosing and a signature of its own making: with its
\* own key ("unregistered"), or with the JWK of a credential the service
\* lists, which it cannot sign for ("replay1" names the credential A
\* registered, "replay2" that of B, "replay3" that of C).
ReplayKey == [replay1 |-> 1, replay2 |-> 2, replay3 |-> 3]
ReplayTampers == {"unregistered"} \cup DOMAIN ReplayKey
AuthnRequest(o, tamper) ==
  LET rq == Val(o.req)
  IN IF tamper = "badsig" THEN [rq EXCEPT !.sig = BadSig]
     ELSE IF tamper = "badupd"
     THEN [rq EXCEPT !.updating = Some([Val(rq.updating) EXCEPT !.update = BadSig])]
     ELSE IF tamper = "attacker"
     THEN [cred_jwk |-> PubJWK(AttackerKey), sig |-> Sign(AttackerKey, Val(o.chal)),
           updating |-> None]
     ELSE IF tamper = "unregistered"
     THEN [cred_jwk |-> PubJWK(AttackerKey), sig |-> Sign(AttackerKey, Val(o.chal)),
           updating |-> rq.updating]
     ELSE IF tamper \in DOMAIN ReplayKey
     THEN [cred_jwk |-> PubJWK(CredKey(ReplayKey[tamper])), sig |-> BadSig,
           updating |-> rq.updating]
     ELSE rq

\* POST /register: Service.register on the request in flight
RegisterCall(u, tamper) ==
  /\ alive
  /\ out.kind = "register"
  /\ tamper \in RegTampers
  /\ tamper \in {"badsig", "ovkm"} => "sig" \in DOMAIN Val(out.req).ovkm
  /\ \E rq \in {RegRequest(out, tamper)} :
     \E r \in {SvcRegister(db[u], challengeDB[u], rq.cred, rq.ovkm, clock)} :
       /\ db' = [db EXCEPT ![u] = r.cmo]
       /\ challengeDB' = [challengeDB EXCEPT ![u] = r.chq]
       /\ alive' = (r.ret # "diverge")
       /\ out' = [out EXCEPT !.used = TRUE]
       /\ last' = [op |-> "register", user |-> u, dev |-> out.dev, tamper |-> tamper,
                   ret |-> r.ret, how |-> r.how, chal |-> r.chal, req |-> Some(rq), pre |-> db[u],
                   prechq |-> challengeDB[u], now |-> clock,
                   second |-> out.used]
  /\ UNCHANGED <<clock, nchal, nkey, nsalt, devCreds, pending>>
  /\ UNCHANGED negVars

\* POST /login: Service.authn on the request in flight
AuthnCall(u, tamper) ==
  /\ alive
  /\ out.kind = "authn"
  /\ tamper \in AuthnTampers \cup ReplayTampers
  /\ tamper = "badupd" => Val(out.req).updating # None
  /\ tamper \in ReplayTampers => Val(out.req).updating # None
  /\ tamper \in DOMAIN ReplayKey => Val(out.req).cred_jwk # PubJWK(CredKey(ReplayKey[tamper]))
  /\ \E rq \in {AuthnRequest(out, tamper)} :
     \E r \in {SvcAuthn(db[u], challengeDB[u], rq.cred_jwk, rq.sig, rq.updating, clock)} :
       /\ db' = [db EXCEPT ![u] = r.cmo]
       /\ challengeDB' = [challengeDB EXCEPT ![u] = r.chq]
       /\ alive' = (r.ret # "diverge")
       /\ out' = [out EXCEPT !.used = TRUE]
       /\ last' = [op |-> "authn", user |-> u, dev |-> out.dev, tamper |-> tamper,
                   ret |-> r.ret, how |-> r.how, chal |-> r.chal, req |-> Some(rq), pre |-> db[u],
                   prechq |-> challengeDB[u], now |-> clock,
                   second |-> out.used]
  /\ UNCHANGED <<clock, nchal, nkey, nsalt, devCreds, pending>>
  /\ UNCHANGED negVars

\* requests that answer no access of the sender: a credential and an OVKM
\* of the sender's making, a login with the sender's own key
UnaskedRegister ==
  [cred |-> [jwk |-> PubJWK(AttackerKey),
             atts |-> [sig |-> Sign(AttackerKey, CONCAT(Challenge(0), JSON(PubJWK(AttackerKey)))),
                       key |-> PubJWK(AttackerKey)]],
   ovkm |-> AttackerOVKM]
UnaskedAuthn ==
  [cred_jwk |-> PubJWK(AttackerKey), sig |-> Sign(AttackerKey, Challenge(0)), updating |-> None]

\* POST /register or /login for a user for whom startAuthn was never
\* called (a call that finds the challenge stack empty is a second
\* RegisterCall / AuthnCall on the request in flight).  The TypeError of
\* pop() on undefined is not caught by the request handler: the request is
\* never answered, and whether the process goes on depends on how the
\* runtime treats unhandled rejections.
Unasked(u, op) ==
  /\ alive
  /\ challengeDB[u] = None
  /\ \E r \in {IF op = "register"
                THEN SvcRegister(db[u], challengeDB[u], UnaskedRegister.cred,
                                 UnaskedRegister.ovkm, clock)
                ELSE SvcAuthn(db[u], challengeDB[u], UnaskedAuthn.cred_jwk, UnaskedAuthn.sig,
                              UnaskedAuthn.updating, clock)} :
       /\ db' = [db EXCEPT ![u] = r.cmo]
       /\ challengeDB' = [challengeDB EXCEPT ![u] = r.chq]
       /\ IF r.ret = "throw" THEN alive' \in BOOLEAN ELSE alive' = TRUE
       /\ last' = [op |-> op, user |-> u, dev |-> "", tamper |-> "unasked",
                   ret |-> r.ret, how |-> r.how, chal |-> r.chal,
                   req |-> Some(IF op = "register" THEN UnaskedRegister ELSE UnaskedAuthn),
                   pre |-> db[u], prechq |-> challengeDB[u], now |-> clock, second |-> FALSE]
  /\ UNCHANGED <<clock, nchal, nkey, nsalt, devCreds, out, pending>>
  /\ UNCHANGED negVars

\* POST /reset: Service.delete.  The resets followed are those of a
\* registered user that arrive while a request is in flight, unanswered.
Reset(u) ==
  /\ alive
  /\ db[u] # None
  /\ out.kind \in {"register", "authn"} /\ ~out.used /\ ~out.reset
  /\ \E r \in {SvcDelete(db[u], challengeDB[u])} :
       /\ db' = [db EXCEPT ![u] = r.cmo]
       /\ challengeDB' = [challengeDB EXCEPT ![u] = r.chq]
  /\ out' = [out EXCEPT !.reset = TRUE]
  /\ last' = [NoCall EXCEPT !.op = "delete", !.user = u, !.ret = "true", !.pre = db[u],
                            !.prechq = challengeDB[u], !.now = clock]
  /\ UNCHANGED <<alive, clock, nchal, nkey, nsalt, devCreds, pending>>
  /\ UNCHANGED negVars

\* Time passes.  The service reads the clock only to compare it with the
\* times recorded in next, so time is followed while a migration is in
\* progress and its window has not elapsed: a moment passes after a
\* candidate was recorded, or the rest of the window passes.
Delays == {"moment", "window"}
Tick(u, delay) ==
  /\ db[u] # None /\ Val(db[u]).next # None
  /\ \E nx \in {Val(Val(db[u]).next)} :
       /\ clock - nx.startTime <= migrating_date_ms
       /\ IF delay = "moment"
          THEN /\ \E k \in 1 .. Len(nx.candidates) : nx.candidates[k].firstTime = clock
               /\ clock' = clock + 1
          ELSE clock' = nx.startTime + migrating_date_ms + 1
  /\ UNCHANGED <<db, challengeDB, alive, nchal, nkey, nsalt, devCreds, out, last, pending>>
  /\ UNCHANGED negVars

\* the seed an update ceremony among the devices of G yields (C1)
RotatedSeed(G) == XCoord(SetToBag({EphKey(x, Len(seeds[x])) : x \in G}))

\* the devices of G complete an update ceremony: initSeedNegotiation and
\* seedNegotiating with updating = true, up to completion on every device.
\* The ceremonies followed are those of devices that are not updating yet.
Rotate(G) ==
  /\ Cardinality(G) >= 2
  /\ \A d \in G : ~SeedIsUpdating(seeds[d])
  /\ seeds' = [d \in SvcDevs |-> IF d \in G THEN Append(seeds[d], RotatedSeed(G)) ELSE seeds[d]]
  /\ UNCHANGED <<devNum, updating, e, negotiating, published, latest, ret, rounds, stale>>
  /\ UNCHANGED svcVars

NextSvc ==
  \/ \E d \in SvcDevs, u \in Users, button \in {"register", "login"} : Access(d, u, button)
  \/ \E u \in Users, tamper \in RegTampers : RegisterCall(u, tamper)
  \/ \E u \in Users, tamper \in AuthnTampers : AuthnCall(u, tamper)
  \/ \E u \in Users, op \in {"register", "authn"} : Unasked(u, op)
  \/ \E u \in Users : Reset(u)
  \/ \E u \in Users, delay \in Delays : Tick(u, delay)
  \/ \E G \in SUBSET SvcDevs : Rotate(G)

SpecSvc == InitSvc /\ [][NextSvc]_vars

(* ------------- devices and service: logins of rotated devices ----------- *)
\* The three devices have registered, in the order A, B, C, under the OVK
\* A derived from the first seed; since then each device has either kept
\* its seed or completed one of two update ceremonies, ceremony g being
\* held among the devices of the user that took part in it and a device
\* Y_g that is not registered with this service.
MigDev(k) == IF k = 1 THEN "A" ELSE IF k = 2 THEN "B" ELSE "C"
MigOVKM ==
  [ovk_jwk |-> DeriveOVK(<<FirstSeed>>, Salt(1)), r |-> Salt(1),
   mac |-> MacOVK(<<FirstSeed>>, Salt(1), SvcID)]
MigCM == CMAdd(CMAdd(CMInit(PubJWK(CredKey(1)), MigOVKM), PubJWK(CredKey(2))), PubJWK(CredKey(3)))
MigSeed(rot, g) == XCoord(SetToBag({EphKey(x, 1) : x \in {y \in SvcDevs : rot[y] = g}} \cup {EphKey("Y", g)}))

InitMig ==
  /\ devNum = Cardinality(SvcDevs)
  /\ updating = FALSE
  /\ \E rot \in [SvcDevs -> 0 .. 2] :
       seeds = [d \in SvcDevs |-> IF rot[d] = 0 THEN <<FirstSeed>>
                                  ELSE <<FirstSeed, MigSeed(rot, rot[d])>>]
  /\ e = [d \in SvcDevs |-> None]
  /\ negotiating = [d \in SvcDevs |-> None]
  /\ published = {}
  /\ latest = [d \in SvcDevs |-> None]
  /\ ret = [d \in SvcDevs |-> "done"]
  /\ rounds = [d \in SvcDevs |-> 0]
  /\ stale = FALSE
  /\ db = [u \in Users |-> Some(MigCM)]
  /\ challengeDB = [u \in Users |-> Some(<<>>)]
  /\ alive = TRUE
  /\ clock = 1
  /\ nchal = 0 /\ nkey = 3 /\ nsalt = 1
  /\ devCreds = [d \in SvcDevs |-> <<CredKey(CHOOSE k \in 1 .. 3 : MigDev(k) = d)>>]
  /\ out = NoOut
  /\ last = NoCall
  /\ pending = None

\* the devices log in, the requests arrive as sent, time passes
NextMig ==
  \/ \E d \in SvcDevs, u \in Users : Access(d, u, "login")
  \/ \E u \in Users : AuthnCall(u, "none")
  \/ \E u \in Users, delay \in Delays : Tick(u, delay)

SpecMig == InitMig /\ [][NextMig]_vars

(* ---------- devices and service: update messages sent on by others ------ *)
\* A and B have completed an update ceremony, C has not
ReplayRot == [d \in SvcDevs |-> IF d = "C" THEN 0 ELSE 1]
InitReplay ==
  /\ InitMig
  /\ seeds = [d \in SvcDevs |-> IF ReplayRot[d] = 0 THEN <<FirstSeed>>
                                 ELSE <<FirstSeed, MigSeed(ReplayRot, 1)>>]

NextReplay ==
  \/ \E d \in SvcDevs, u \in Users : Access(d, u, "login")
  \/ \E u \in Users, tamper \in {"none", "badupd"} \cup ReplayTampers : AuthnCall(u, tamper)
  \/ \E u \in Users, delay \in Delays : Tick(u, delay)

SpecReplay == InitReplay /\ [][NextReplay]_vars

(* ------- devices and service: requests handled between the awaits ------- *)
\* The request handler of the server is an async function and the
\* service keeps no lock: while Service.register waits for a promise of
\* the crypto library, the handler of another request runs.  Followed here
\* is the wait of the seamless registration for ovk.verify: the first part
\* of the call runs up to it, the second part from it to the return.

\* POST /register, first part: Service.register from the pop of the
\* challenge to the call of ovk.verify under the key cm.getOVK() returned.
\* A call that returns before that is over with this step.
RegisterBegin(u) ==
  /\ alive
  /\ out.kind = "register"
  /\ pending = None
  /\ \E rq \in {Val(out.req)} :
     \E r \in {SvcRegister(db[u], challengeDB[u], rq.cred, rq.ovkm, clock)} :
       /\ challengeDB' = [challengeDB EXCEPT ![u] = r.chq]
       /\ alive' = (r.ret # "diverge")
       /\ IF r.how \in {"added", "badsig"}
          THEN \E cm \in {CMIsUpdating(Val(db[u]), clock).cm} :
                 /\ db' = [db EXCEPT ![u] = Some(cm)]
                 /\ pending' = Some([user |-> u, dev |-> out.dev, req |-> rq, ovk |-> CMGetOVK(cm),
                                     chal |-> r.chal, prechq |-> challengeDB[u], second |-> out.used])
                 /\ last' = [NoCall EXCEPT !.op = "registerBegin", !.user = u, !.dev = out.dev,
                                           !.pre = db[u], !.prechq = challengeDB[u], !.now = clock]
          ELSE /\ db' = [db EXCEPT ![u] = r.cmo]
               /\ pending' = None
               /\ last' = [op |-> "register", user |-> u, dev |-> out.dev, tamper |-> "none",
                           ret |-> r.ret, how |-> r.how, chal |-> r.chal, req |-> Some(rq), pre |-> db[u],
                           prechq |-> challengeDB[u], now |-> clock, second |-> out.used,
                           verified |-> None]
  /\ out' = [out EXCEPT !.used = TRUE]
  /\ UNCHANGED <<clock, nchal, nkey, nsalt, devCreds>>
  /\ UNCHANGED negVars

\* POST /register, second part: the promise of ovk.verify is settled, and
\* on success cm.add(cred.jwk) binds the credential to what cm.getOVK()
\* returns now.  cm is the object the first part took from the database.
RegisterEnd(u) ==
  /\ alive
  /\ pending # None /\ Val(pending).user = u
  /\ db[u] # None
  /\ \E p \in {Val(pending)} :
     \E ok \in {Verify(p.ovk, JSON(p.req.cred.jwk), p.req.ovkm.sig)} :
       /\ db' = IF ok THEN [db EXCEPT ![u] = Some(CMAdd(Val(db[u]), p.req.cred.jwk))] ELSE db
       /\ last' = [op |-> "register", user |-> u, dev |-> p.dev, tamper |-> "none",
                   ret |-> IF ok THEN "true" ELSE "false", how |-> IF ok THEN "added" ELSE "badsig",
                   chal |-> p.chal, req |-> Some(p.req), pre |-> db[u], prechq |-> p.prechq,
                   now |-> clock, second |-> p.second, verified |-> Some(p.ovk)]
  /\ pending' = None
  /\ UNCHANGED <<challengeDB, alive, clock, nchal, nkey, nsalt, devCreds, out>>
  /\ UNCHANGED negVars

NextRace ==
  \/ \E d \in SvcDevs, u \in Users, button \in {"register", "login"} : Access(d, u, button)
  \/ \E u \in Users : RegisterBegin(u)
  \/ \E u \in Users : RegisterEnd(u)
  \/ \E u \in Users : AuthnCall(u, "none")
  \/ \E G \in SUBSET SvcDevs : Rotate(G)

SpecRace == InitSvc /\ [][NextRace]_vars

(* ------------------------ negotiation: claims -------------------------- *)
\* the point k1*k2*...*kN*G of the ceremony and the seed it yields
SharedPoint == SetToBag({EphKey(i, IF updating THEN 1 ELSE 0) : i \in Devs})
SharedSeed == XCoord(SharedPoint)
LastSeed(i) == seeds[i][Len(seeds[i])]
Completed(i) == ret[i] = "done"
AllCompleted == \A i \in Devs : Completed(i)

C2_OrderIndependent ==
  /\ [](\A i \in Devs : Completed(i) =>
           seeds[i] = (IF updating THEN <<OldSeed>> ELSE <<>>) \o <<SharedSeed>>)
  /\ [][\A i \in Devs : Completed(i) => seeds'[i] = seeds[i]]_vars

C2_Witness == stale /\ Completed(1) /\ devNum >= 3

\* C3: when every device keeps receiving its partner's latest map, every
\* device eventually gets completion = true, and a device that has taken
\* part in N-1 rounds of exchange has completed.
C3_Completes ==
  /\ <>[]AllCompleted
  /\ [](\A i \in Devs : rounds[i] >= devNum - 1 => Completed(i))

C3_Witness == AllCompleted /\ devNum = MaxDevNum /\ \E i \in Devs : rounds[i] = devNum - 1

(* --------------------- registration, login: claims --------------------- *)
\* the last call was Service.register / Service.authn
LastIsCall == last.op \in {"register", "authn"}
\* the user's CredManager before and after the last call, the request
LastPre == Val(last.pre)
LastPost == Val(db[last.user])
LastReq == Val(last.req)
\* the seed under which an OVKM's mac was produced
SeedOfMac(mac) == mac[2][2]
\* the public JWKs of a credential list
JwksOf(creds) == {creds[k].jwk : k \in 1 .. Len(creds)}

\* C4: whenever Service.register or Service.authn returns false, the
\* user's CredManager (creds and their OVK bindings, ovkm, next) is the
\* same as before the call.
C4_NoPartialChange ==
  (LastIsCall /\ last.ret = "false") => db[last.user] = last.pre

\* C5: when one device has registered the user and another device holding
\* the same seed answers the pending challenge with the seamless bundle of
\* Device.register, Service.register returns true, and then cm.creds has
\* two entries, both bound to the same OVK.
C5_Case ==
  /\ last.op = "register" /\ last.tamper = "none" /\ ~last.second
  /\ out.ovkm # None
  /\ last.pre # None /\ Len(LastPre.creds) = 1 /\ LastPre.next = None
  /\ SeedOfMac(LastPre.ovkm.mac) = Val(out.seed)

C5_Seamless ==
  C5_Case => /\ last.ret = "true"
             /\ Len(LastPost.creds) = 2
             /\ LastPost.creds[1].ovk = LastPost.creds[2].ovk
             /\ LastPost.creds[2].jwk = LastReq.cred.jwk

C5_Witness == C5_Case /\ last.ret = "true" /\ Len(LastPost.creds) = 2

\* the credential of the last register call is in cm.creds and was not before
C6_Appended ==
  /\ LastReq.cred.jwk \in JwksOf(LastPost.creds)
  /\ LastReq.cred.jwk \notin JwksOf(LastPre.creds)
\* the sig of the last register call verifies under the trusted OVK
C6_SigOK ==
  /\ "sig" \in DOMAIN LastReq.ovkm
  /\ Verify(LastPost.ovkm.ovk_jwk, JSON(LastReq.cred.jwk), LastReq.ovkm.sig)
\* the migration window had elapsed when the last call was made
C6_Elapsed ==
  /\ LastPre.next # None
  /\ last.now - Val(LastPre.next).startTime > migrating_date_ms

C7_Case == out.ovkm # None /\ SeedOfMac(Val(out.ovkm).mac) # Val(out.seed)

C7_OvkVerifyFails ==
  C7_Case => (out.kind = "thrown" /\ out.err = "OvkVerifyFailed" /\ out.req = None)

C7_Witness == C7_Case /\ out.kind = "thrown"

\* C8: Service.authn returns true only if a pending challenge existed, the
\* user exists, cred_pub is in cm.creds and sig is a valid signature of the
\* popped challenge under cred_pub.
C8_AuthnSound ==
  (last.op = "authn" /\ last.ret = "true") =>
     /\ last.prechq # None /\ Val(last.prechq) # <<>>
     /\ last.chal = Some(Val(last.prechq)[Len(Val(last.prechq))])
     /\ db[last.user] # None
     /\ LastReq.cred_jwk \in JwksOf(LastPost.creds)
     /\ Verify(LastReq.cred_jwk, Val(last.chal), LastReq.sig)

C8_Witness == last.op = "authn" /\ last.ret = "true" /\ last.how = "applied"

\* C9: challenges are one-shot: a second register or authn call answering
\* a challenge that an earlier call already answered returns false.
C9_OneShot == (LastIsCall /\ last.second) => last.ret # "true"

\* the update of the last authn call reached CredManager.addUpdating:
\* its signature verifies under the trusted OVK and cred is registered
C10_Case ==
  /\ last.op = "authn" /\ LastReq.updating # None /\ last.pre # None
  /\ Verify(LastPre.ovkm.ovk_jwk, JSON(Val(LastReq.updating).ovkm.ovk_jwk),
            Val(LastReq.updating).update)
  /\ LastReq.cred_jwk \in JwksOf(LastPre.creds)
\* the credentials after rebinding cred to ovk'
C10_Rebound ==
  [k \in 1 .. Len(LastPre.creds) |->
     IF LastPre.creds[k].jwk = LastReq.cred_jwk
     THEN [jwk |-> LastPre.creds[k].jwk, ovk |-> Val(LastReq.updating).ovkm.ovk_jwk]
     ELSE LastPre.creds[k]]
C10_Next == Val(LastReq.updating).ovkm
C10_Bound == SelectSeq(C10_Rebound, LAMBDA c : c.ovk = C10_Next.ovk_jwk)

\* C10: addUpdating(cred, ovk', r', mac') commits exactly when, after
\* rebinding cred, more than half of the credentials are bound to ovk':
\* then ovkm becomes {ovk', r', mac'}, next is dropped and only the
\* credentials bound to ovk' are retained; otherwise ovkm is unchanged and
\* next stays present.  With three credentials, the second update to the
\* same ovk' commits it and drops the third credential.
C10_Quorum ==
  C10_Case =>
     IF 2 * Len(C10_Bound) > Len(LastPre.creds)
     THEN /\ LastPost.ovkm = [ovk_jwk |-> C10_Next.ovk_jwk, r |-> C10_Next.r, mac |-> C10_Next.mac]
          /\ LastPost.next = None
          /\ LastPost.creds = C10_Bound
     ELSE /\ LastPost.ovkm = LastPre.ovkm
          /\ LastPost.next # None
          /\ LastPost.creds = C10_Rebound

C10_Witness ==
  /\ C10_Case /\ Len(LastPre.creds) = 3 /\ LastPre.next # None
  /\ Len(LastPost.creds) = 2 /\ LastPost.next = None
  /\ LastPost.ovkm.ovk_jwk = C10_Next.ovk_jwk /\ LastPost.ovkm # LastPre.ovkm

(* ------------------------- migration: claims --------------------------- *)
\* the last authn call carried the first update message of a migration:
\* no migration was in progress and Service.update accepted the message
C11_Case ==
  /\ last.op = "authn" /\ last.how = "applied"
  /\ last.pre # None /\ LastPre.next = None
\* the trusted OVK is the original one and no credential has been pruned
C11_Kept ==
  /\ LastPost.ovkm = LastPre.ovkm
  /\ JwksOf(LastPost.creds) = JwksOf(LastPre.creds)
  /\ Len(LastPost.creds) = Len(LastPre.creds)

\* C11 as stated: for every number N >= 1 of registered credentials, after
\* exactly one update message has been accepted the trusted OVK is still
\* the original one and no credential has been pruned.
C11_Original == C11_Case => C11_Kept

\* C11, amended: for every number N >= 2 of registered credentials a single
\* accepted update message does not commit: ovkm is the original one, no
\* credential is pruned and next is present.  With N = 1 the single update
\* is a strict majority and commits at once.
C11_SingleUpdate ==
  C11_Case =>
     IF Len(LastPre.creds) >= 2
     THEN C11_Kept /\ LastPost.next # None
     ELSE /\ LastPost.ovkm.ovk_jwk = Val(LastReq.updating).ovkm.ovk_jwk
          /\ LastPost.next = None
          /\ Len(LastPost.creds) = 1

C11_Witness == C11_Case /\ Len(LastPre.creds) = 3 /\ LastPost.next # None

\* the last call ran CredManager.isUpdating() after the window had elapsed:
\* startAuthn (through getCreds) for a registered user, or register once
\* it has reached its isUpdating() test
C12_TimedOut ==
  /\ last.pre # None /\ LastPre.next # None
  /\ last.now - Val(LastPre.next).startTime > migrating_date_ms
  /\ \/ last.op = "startAuthn"
     \/ last.op = "register" /\ last.how \in {"diverge", "updating", "badsig", "added"}
\* k_i: the credentials bound to ovk when the call was made
C12_Count(ovk) == Len(SelectSeq(LastPre.creds, LAMBDA c : c.ovk = ovk))
C12_Bound == {LastPre.creds[k].ovk : k \in 1 .. Len(LastPre.creds)}
C12_FirstSeen(ovk) == FirstTime(Val(LastPre.next).candidates, ovk)

\* C12: after the window has elapsed the next isUpdating() adopts the OVK
\* with the largest k_i, among tied candidates the one seen first; ovkm is
\* that OVK, next is cleared and only the credentials bound to it remain.
C12_AdoptsLargest ==
  C12_TimedOut =>
     /\ last.ret # "diverge"
     /\ LastPost.next = None
     /\ LastPost.ovkm.ovk_jwk \in C12_Bound
     /\ \A o \in C12_Bound :
          /\ C12_Count(o) <= C12_Count(LastPost.ovkm.ovk_jwk)
          /\ (/\ C12_Count(o) = C12_Count(LastPost.ovkm.ovk_jwk)
              /\ C12_FirstSeen(o) # 0 /\ C12_FirstSeen(LastPost.ovkm.ovk_jwk) # 0)
             => C12_FirstSeen(LastPost.ovkm.ovk_jwk) <= C12_FirstSeen(o)
     /\ SelectSeq(LastPost.creds, LAMBDA c : c.jwk \in JwksOf(LastPre.creds))
          = SelectSeq(LastPre.creds, LAMBDA c : c.ovk = LastPost.ovkm.ovk_jwk)

\* C13: whenever next is present and the window has elapsed, a call of
\* isUpdating() (through getCreds / startAuthn or register) terminates,
\* clears next and returns false, however the credentials are bound.
C13_Terminates ==
  C12_TimedOut =>
     /\ last.ret # "diverge"
     /\ alive
     /\ LastPost.next = None
     /\ last.how # "updating"

\* every credential of cm is bound to the trusted OVK or to a candidate
C14_Bound(cm) ==
  \A k \in 1 .. Len(cm.creds) :
     \/ cm.creds[k].ovk = cm.ovkm.ovk_jwk
     \/ /\ cm.next # None
        /\ \E j \in 1 .. Len(Val(cm.next).candidates) :
              Val(cm.next).candidates[j].ovk_jwk = cm.creds[k].ovk

\* C14: in every reachable CredManager each credential is bound to the
\* current ovkm.ovk_jwk or to a candidate of next, and when next is absent
\* every credential is bound to the current OVK.
C14_BindingInvariant ==
  \A u \in Users : db[u] # None => C14_Bound(Val(db[u]))

C14_Witness ==
  \E u \in Users :
     /\ db[u] # None /\ Val(db[u]).next # None
     /\ \E k \in 1 .. Len(Val(db[u]).creds) : Val(db[u]).creds[k].ovk # Val(db[u]).ovkm.ovk_jwk
     /\ \E k \in 1 .. Len(Val(db[u]).creds) : Val(db[u]).creds[k].ovk = Val(db[u]).ovkm.ovk_jwk

\* the last call was register for a user whose migration was in progress,
\* inside its window
C15_Case ==
  /\ last.op = "register" /\ last.pre # None /\ LastPre.next # None
  /\ last.now - Val(LastPre.next).startTime <= migrating_date_ms

\* C15: while the user's CredManager isUpdating(), Service.register for
\* that user returns false and adds no credential; register adds a
\* credential only when next is absent.
C15_RegisterRefused ==
  /\ C15_Case => (last.ret = "false" /\ db[last.user] = last.pre)
  /\ (last.op = "register" /\ last.how = "added") => LastPost.next = None

C15_Witness == C15_Case /\ last.how = "updating" /\ last.tamper = "none"

(* ------------------- register, delete, update: claims ------------------ *)
\* the last call was register for an unknown user; it popped a pending
\* challenge and the attestation of the credential verifies over it
C16_Case ==
  /\ last.op = "register" /\ last.pre = None /\ last.chal # None
  /\ Verify(LastReq.cred.atts.key, CONCAT(Val(last.chal), JSON(LastReq.cred.jwk)),
            LastReq.cred.atts.sig)

\* C16: for an unknown user with a pending challenge and a valid
\* attestation, register with an OVKM {ovk, r, mac} returns true and
\* creates the CredManager {creds: [{cred, ovk}], ovkm, next: none}; with
\* the {sig} form it returns false and no account is created.
C16_NewAccount ==
  C16_Case =>
     IF "ovk_jwk" \in DOMAIN LastReq.ovkm
     THEN /\ last.ret = "true"
          /\ db[last.user] =
               Some([creds |-> <<[jwk |-> LastReq.cred.jwk, ovk |-> LastReq.ovkm.ovk_jwk]>>,
                     ovkm |-> LastReq.ovkm, next |-> None])
     ELSE /\ last.ret = "false"
          /\ db[last.user] = None

C16_Witness ==
  /\ C16_Case /\ "sig" \in DOMAIN LastReq.ovkm /\ last.ret = "false"
  /\ \E d \in SvcDevs : devCreds[d] # <<>>

\* the last call was register with an OVKM for a user that exists
C17_Case ==
  /\ last.op = "register" /\ last.pre # None
  /\ "ovk_jwk" \in DOMAIN LastReq.ovkm

\* C17: register with an OVKM for a user that already exists returns false
\* and leaves the user's creds, ovkm and next as they were.
C17_DoubleInit == C17_Case => (last.ret = "false" /\ db[last.user] = last.pre)

C17_Witness == C17_Case /\ last.how = "doubleinit" /\ last.chal # None

\* C18: register and authn return false when the user has no pending
\* challenge, also for a user for whom startAuthn was never called.
C18_NoChallenge ==
  (LastIsCall /\ last.prechq \in {None, Some(<<>>)}) => last.ret = "false"

\* C19: delete drops the user's CredManager and the user's challenge
\* stack, so no register / authn call made after it succeeds in answering
\* a challenge issued before it.
C19_DeleteDropsBoth ==
  /\ last.op = "delete" => (db[last.user] = None /\ challengeDB[last.user] = None)
  /\ (LastIsCall /\ last.tamper # "unasked" /\ out.reset) => last.ret # "true"

\* the last authn call carried the update message Device.authn produced
C20_Case ==
  /\ last.op = "authn" /\ last.tamper = "none"
  /\ LastReq.updating # None /\ last.pre # None
C20_Update == Val(LastReq.updating)
\* seeds[len-2] of the device, and prev_r, the salt of the signing OVK
C20_PrevSeed == seeds[last.dev][Len(seeds[last.dev]) - 1]
C20_PrevR == C20_Update.update.key[3]
\* the service's trusted OVKM was derived from that seed with salt prev_r
C20_Trusted ==
  /\ LastPre.ovkm.r = C20_PrevR
  /\ LastPre.ovkm.ovk_jwk = PubJWK(OVK(C20_PrevSeed, C20_PrevR))

\* C20: the update message of a device holding two seeds is the signature
\* of the OVK derived from seeds[len-2] and prev_r over the next OVK's JWK,
\* and Service.update accepts it whenever the trusted OVKM was derived from
\* that previous seed with salt prev_r.
C20_UpdateAccepted ==
  C20_Case =>
     /\ Len(seeds[last.dev]) >= 2
     /\ C20_Update.update = Sign(OVK(C20_PrevSeed, C20_PrevR), JSON(C20_Update.ovkm.ovk_jwk))
     /\ C20_Trusted =>
          /\ last.how # "badsig"
          /\ LastReq.cred_jwk \in JwksOf(LastPre.creds) => last.how = "applied"

C20_Witness == C20_Case /\ C20_Trusted /\ last.how = "applied" /\ Len(LastPre.creds) >= 2

\* the services of the demonstration server
svcList == {"svc1", "svc2", "svc3"}

\* the request in flight answers the last startAuthn, and the device's
\* seeds are those it computed the request with
JustAccessed ==
  /\ last.op = "startAuthn" /\ last.ret = "true" /\ db[last.user] # None
  /\ out.dev = last.dev /\ out.kind \in {"register", "authn"} /\ ~out.used /\ ~out.reset
  /\ Val(out.seed) = CurrentSeed(seeds[out.dev])

\* C24: once a device has observed that the service committed the new OVK
\* (the trusted OVKM of a response validates under the device's latest seed
\* and no migration is in progress), its Seed holds only the new seed and
\* isUpdating() is false.
C24_PreviousDropped ==
  (/\ JustAccessed
   /\ LastPost.next = None
   /\ VerifyOVK(seeds[out.dev], LastPost.ovkm.r, SvcID, LastPost.ovkm.mac))
    => (Len(seeds[out.dev]) = 1 /\ ~SeedIsUpdating(seeds[out.dev]))

\* the time-out resolution of the last call found the original OVK among
\* the OVKs bound to the most credentials
C25_Case ==
  /\ C12_TimedOut
  /\ LastPre.ovkm.ovk_jwk \in C12_Bound
  /\ \A o \in C12_Bound : C12_Count(o) <= C12_Count(LastPre.ovkm.ovk_jwk)

\* C25: in time-out resolution an original OVK that is among those tied
\* for the maximum count is treated as oldest: it is kept as ovkm and only
\* the credentials bound to it are retained.
C25_OriginalKept ==
  C25_Case =>
     /\ last.ret # "diverge"
     /\ LastPost.next = None
     /\ LastPost.ovkm = LastPre.ovkm
     /\ SelectSeq(LastPost.creds, LAMBDA c : c.jwk \in JwksOf(LastPre.creds))
          = SelectSeq(LastPre.creds, LAMBDA c : c.ovk = LastPre.ovkm.ovk_jwk)

\* C27: when Device.register fails with OvkVerifyFailed the device's
\* credential store is what it was before the call.
C27_StoreUnchanged ==
  (out.kind = "thrown" /\ out.err = "OvkVerifyFailed") => devCreds[out.dev] = out.had

\* C28: startAuthn pushes the fresh challenge onto the user's stack: the
\* challenges that were pending before the call are still pending after it.
C28_Pushes ==
  last.op = "startAuthn" =>
     challengeDB[last.user] =
       Some(IF last.prechq = None THEN <<Challenge(nchal)>>
            ELSE Append(Val(last.prechq), Challenge(nchal)))

\* the candidates the service lists for user u while a migration is on
C29_Posted(u) ==
  IF db[u] # None /\ Val(db[u]).next # None THEN Val(Val(db[u]).next).candidates ELSE <<>>
\* the seed an OVK was derived from
C29_SeedOf(ovk_jwk) == ovk_jwk[2][2]
\* the listed candidates that validate under the latest seed of device d
C29_Valid(d, u) ==
  {k \in 1 .. Len(C29_Posted(u)) :
     VerifyOVK(seeds[d], C29_Posted(u)[k].r, SvcID, C29_Posted(u)[k].mac)}
C29_Case ==
  /\ JustAccessed /\ out.kind = "authn"
  /\ Len(seeds[out.dev]) > 1 /\ C29_Valid(out.dev, last.user) # {}

\* C29: a device whose seed is updating and that is listed a candidate
\* validating under its latest seed sends its update for that candidate
\* and derives no OVK; hence next never holds two candidates derived from
\* one seed.
C29_ReusesCandidate ==
  /\ C29_Case =>
       /\ Val(out.req).updating # None
       /\ \E k \in C29_Valid(out.dev, last.user) :
            Val(Val(out.req).updating).ovkm =
              [ovk_jwk |-> C29_Posted(last.user)[k].ovk_jwk, r |-> C29_Posted(last.user)[k].r,
               mac |-> C29_Posted(last.user)[k].mac]
  /\ \A u \in Users : \A k1 \in 1 .. Len(C29_Posted(u)) : \A k2 \in 1 .. Len(C29_Posted(u)) :
       C29_SeedOf(C29_Posted(u)[k1].ovk_jwk) = C29_SeedOf(C29_Posted(u)[k2].ovk_jwk) => k1 = k2

C29_Witness == C29_Case /\ Len(Val(db[last.user]).creds) >= 2

\* C23: verifyOVK(r, svc, macOVK(r, svc)) is true on any Seed whose latest
\* seed equals the seed macOVK was computed with, for every salt drawn so
\* far and every service; a device that is listed a candidate made under
\* its own latest seed therefore finds it valid.
C23_MacRoundTrip ==
  /\ \A d1 \in SvcDevs : \A d2 \in SvcDevs : \A n \in 0 .. nsalt : \A svc \in svcList :
       CurrentSeed(seeds[d1]) = CurrentSeed(seeds[d2])
         => VerifyOVK(seeds[d1], Salt(n), svc, MacOVK(seeds[d2], Salt(n), svc))
  /\ (JustAccessed /\ out.kind = "authn") =>
       \A k \in 1 .. Len(C29_Posted(last.user)) :
          SeedOfMac(C29_Posted(last.user)[k].mac) = Val(out.seed) => k \in C29_Valid(out.dev, last.user)

\* a device holding two seeds was listed a candidate another device made
\* under the same latest seed
C23_Witness ==
  /\ JustAccessed /\ out.kind = "authn" /\ Len(seeds[out.dev]) = 2
  /\ \E k \in C29_Valid(out.dev, last.user) :
        SeedOfMac(C29_Posted(last.user)[k].mac) = Val(out.seed)

\* the login request in flight carries an update message
C30_Emits == Val(out.req).updating # None
\* its OVK was derived for this request: it is not a listed candidate
C30_Derived ==
  /\ C30_Emits
  /\ \A k \in 1 .. Len(C29_Posted(last.user)) :
       C29_Posted(last.user)[k].ovk_jwk # Val(Val(out.req).updating).ovkm.ovk_jwk
  /\ Val(Val(out.req).updating).ovkm.r = Salt(nsalt)
  /\ Val(Val(out.req).updating).ovkm.ovk_jwk = PubJWK(OVK(Val(out.seed), Salt(nsalt)))

C21_Called == last' # last /\ last'.op = "negotiate"

\* C21: negotiate fails with InvalidState when update = false and the
\* device holds a seed, or update = true and it holds none; the failing
\* call leaves the seed list and the ephemeral state unchanged.
C21_InvalidState ==
  [][(/\ C21_Called
      /\ \/ ~last'.update /\ Len(seeds[last'.dev]) # 0
         \/ last'.update /\ Len(seeds[last'.dev]) = 0)
     => (/\ last'.throw = "InvalidState"
         /\ seeds'[last'.dev] = seeds[last'.dev]
         /\ e'[last'.dev] = e[last'.dev])]_vars

\* a first-ceremony call on a device that holds a seed has failed
C21_Witness ==
  /\ last.op = "negotiate" /\ last.throw = "InvalidState"
  /\ ~last.update /\ Len(seeds[last.dev]) # 0

\* C22: while the ephemeral state of a ceremony exists, a call of
\* negotiate that passes the seed-count precondition and whose meta differs
\* from the ceremony's fails with MetaMismatch and leaves the seed list and
\* the ephemeral state unchanged.
C22_MetaMismatch ==
  [][(/\ C21_Called
      /\ last'.update = (Len(seeds[last'.dev]) # 0)
      /\ e[last'.dev] # None /\ Val(e[last'.dev]).meta # last'.meta)
     => (/\ last'.throw = "MetaMismatch"
         /\ seeds'[last'.dev] = seeds[last'.dev]
         /\ e'[last'.dev] = e[last'.dev])]_vars

C22_Witness ==
  /\ last.op = "negotiate" /\ last.throw = "MetaMismatch"
  /\ e[last.dev] # None /\ Val(e[last.dev]).meta # last.meta

\* three credentials A, B, C were bound to the trusted OVK; A has been
\* rebound to a candidate OVK2 and then B to another candidate OVK3, and
\* the last call is the first getCreds (through startAuthn) after the
\* window has elapsed
C26_Case ==
  /\ last.op = "startAuthn" /\ C12_TimedOut
  /\ Len(LastPre.creds) = 3
  /\ Len(Val(LastPre.next).candidates) = 2
  /\ LastPre.creds[1].ovk = Val(LastPre.next).candidates[1].ovk_jwk
  /\ LastPre.creds[2].ovk = Val(LastPre.next).candidates[2].ovk_jwk
  /\ LastPre.creds[3].ovk = LastPre.ovkm.ovk_jwk
  /\ Cardinality(C12_Bound) = 3

\* C26: that getCreds resolves the migration to OVK2, the candidate seen
\* first, and leaves A as the only credential.
C26_EarliestWins ==
  C26_Case =>
     /\ last.ret = "true"
     /\ LastPost.next = None
     /\ LastPost.ovkm.ovk_jwk = LastPre.creds[1].ovk
     /\ LastPost.creds = <<LastPre.creds[1]>>
     /\ LastPre.creds[1].jwk = PubJWK(CredKey(1))

C26_Witness ==
  /\ C26_Case /\ LastPost.next = None
  /\ Val(LastPre.next).candidates[1].firstTime < Val(LastPre.next).candidates[2].firstTime

\* the maps device i has sent in the ceremony
C33_Sent(i) == {c[2] : c \in {x \in published : x[1] = i}}

\* C33: within a ceremony the ephemeral private key is generated by the
\* first call of negotiate and used by every later call: entry 0 of every
\* map a device sends is the same public key, the public key of the
\* ephemeral data for as long as it exists.
C33_SameKey ==
  \A i \in Devs :
     /\ \A m1 \in C33_Sent(i) : \A m2 \in C33_Sent(i) : m1[0] = m2[0]
     /\ e[i] # None => \A m \in C33_Sent(i) : m[0] = ToECPubKey(Val(e[i]).sk)

\* a device has sent three different maps and has completed
C33_Witness ==
  \E i \in Devs : Cardinality(C33_Sent(i)) >= 3 /\ Completed(i) /\ e[i] = None

\* the partner map given to the call, the index of the ceremony's seed
C31_Partner == IF last'.epk = None THEN <<>> ELSE Val(last'.epk).partner
C31_Idx == IF e[last'.dev] # None THEN Val(e[last'.dev]).idx ELSE Len(seeds[last'.dev])

\* C31: negotiate appends to the seed list only for a partner entry whose
\* step is devNum - 2; partner entries with any other step number never
\* change the seed list.
C31_FinalHopOnly ==
  [][(C21_Called /\ last'.throw = "")
     => Len(seeds'[last'.dev]) =
          Len(seeds[last'.dev])
            + (IF (last'.meta.devNum - 2) \in DOMAIN C31_Partner THEN 1 ELSE 0)]_vars

\* C32: within one ceremony the seed list grows by at most one entry, and
\* whenever negotiate returns completion = true the ephemeral state has
\* been cleared and the seed list is one entry longer than when the
\* ceremony started.
C32_OneSeed ==
  [][(C21_Called /\ last'.throw = "")
     => /\ Len(seeds'[last'.dev]) <= C31_Idx + 1
        /\ last'.completion => (e'[last'.dev] = None /\ Len(seeds'[last'.dev]) = C31_Idx + 1)]_vars

\* a Service.authn call whose request carries an update message
C34_UpdateCall ==
  /\ last.op = "authn" /\ last.pre # None /\ db[last.user] # None
  /\ LastReq.updating # None

\* C34: an update for a credential that is not among the user's
\* credentials changes nothing, at whatever time it is applied, and the
\* Service.authn call that carries it returns false and leaves the user's
\* CredManager as it was.
C34_UnknownCredRefused ==
  (C34_UpdateCall /\ LastReq.cred_jwk \notin JwksOf(LastPre.creds))
    => /\ \A now \in {last.now, clock} :
            \E u \in {Val(LastReq.updating)} :
              CMAddUpdating(LastPre, LastReq.cred_jwk, u.ovkm.ovk_jwk, u.ovkm.r, u.ovkm.mac, now)
                = [ret |-> FALSE, cm |-> LastPre]
       /\ last.ret = "false"
       /\ last.how \in {"badsig", "notcred"}
       /\ db[last.user] = last.pre

\* an update message that verifies under the trusted OVK arrived with a
\* public JWK the service does not list, while other candidates were listed
C34_Witness ==
  /\ C34_UpdateCall /\ LastReq.cred_jwk \notin JwksOf(LastPre.creds)
  /\ last.how = "notcred"
  /\ UpdateSigOK(LastPre, Val(LastReq.updating).ovkm, Val(LastReq.updating).update)
  /\ LastPre.next # None

\* the request of the last Service.authn call proves possession of the
\* credential it names: its signature over the popped challenge verifies
C35_Proved ==
  /\ last.chal # None
  /\ Verify(LastReq.cred_jwk, Val(last.chal), LastReq.sig)

\* C35: a credential's OVK binding changes only through a Service.authn
\* request that proves possession of that credential, and the trusted OVK
\* changes in Service.authn only with such a request; an update message
\* sent on with the JWKs of other registered credentials moves none of them
\* and reaches no quorum.
C35_RebindNeedsSignature ==
  (last.op = "authn" /\ last.pre # None /\ db[last.user] # None)
    => /\ \A k \in 1 .. Len(LastPre.creds) : \A j \in 1 .. Len(LastPost.creds) :
            (LastPre.creds[k].jwk = LastPost.creds[j].jwk /\ LastPre.creds[k].ovk # LastPost.creds[j].ovk)
              => (LastPre.creds[k].jwk = LastReq.cred_jwk /\ C35_Proved)
       /\ LastPost.ovkm # LastPre.ovkm => C35_Proved

\* the OVKs of the candidates a CredManager lists
C37_Cands(cm) ==
  IF cm.next = None THEN {}
  ELSE {Val(cm.next).candidates[k].ovk_jwk : k \in 1 .. Len(Val(cm.next).candidates)}
\* the last call was a Service.authn whose update message is signed, over
\* the key it presents, by the OVK trusted when the call began
C37_Verified ==
  /\ last.op = "authn" /\ LastReq.updating # None
  /\ \E u \in {Val(LastReq.updating)} :
       Verify(LastPre.ovkm.ovk_jwk, JSON(u.ovkm.ovk_jwk), u.update)

\* C37: the trusted OVK changes only to a key that an update message
\* presented with a signature that verified under the OVK trusted at that
\* time: in Service.authn to the key of the message being handled, at the
\* end of the migration window to a listed candidate, and a candidate is
\* listed only from such a message.  An update message whose signature
\* does not verify under the OVK trusted now, one signed by the previously
\* trusted OVK after a commit included, is rejected and changes nothing.
C37_TrustedOnlyFromVerified ==
  (last.op # "none" /\ last.pre # None /\ db[last.user] # None)
    => /\ LastPost.ovkm # LastPre.ovkm
            => \/ C37_Verified /\ LastPost.ovkm.ovk_jwk = Val(LastReq.updating).ovkm.ovk_jwk
               \/ last.op # "authn" /\ LastPost.ovkm.ovk_jwk \in C37_Cands(LastPre)
       /\ C37_Cands(LastPost) \ C37_Cands(LastPre) # {}
            => /\ C37_Verified
               /\ C37_Cands(LastPost) \ C37_Cands(LastPre) = {Val(LastReq.updating).ovkm.ovk_jwk}
       /\ (last.op = "authn" /\ LastReq.updating # None /\ ~C37_Verified)
            => (last.ret = "false" /\ last.how = "badsig" /\ db[last.user] = last.pre)

\* after the commit of a new OVK, the update message that was signed by
\* the previously trusted OVK arrived again as it was sent and was rejected
C37_Witness ==
  /\ last.op = "authn" /\ last.pre # None /\ db[last.user] # None
  /\ last.tamper = "none" /\ LastReq.updating # None
  /\ Val(LastReq.updating).update # BadSig
  /\ LastPre.ovkm.ovk_jwk = Val(LastReq.updating).ovkm.ovk_jwk
  /\ LastPre.ovkm # MigOVKM
  /\ last.how = "badsig"

\* the last Service.authn call applied its update message
C39_Applied ==
  /\ last.op = "authn" /\ last.pre # None /\ db[last.user] # None
  /\ LastReq.updating # None /\ last.how = "applied"

\* C39: applying an update that was accepted once more, for the same
\* credential and with the same ovk', r' and mac', leaves the bindings,
\* the candidate list and the trusted OVKM as they are, at whatever time
\* it is applied again.
C39_Idempotent ==
  C39_Applied
    => \A now \in {last.now, clock, clock + 1} :
         \E u \in {Val(LastReq.updating)} :
           CMAddUpdating(LastPost, LastReq.cred_jwk, u.ovkm.ovk_jwk, u.ovkm.r, u.ovkm.mac, now)
             = [ret |-> TRUE, cm |-> LastPost]

\* the service handled the same request a second time while the migration
\* was in progress, applied its update again, and is as it was
C39_Witness ==
  /\ C39_Applied /\ last.second /\ last.tamper = "none"
  /\ LastPre.next # None /\ LastPost.next # None
  /\ Len(Val(LastPost.next).candidates) >= 1
  /\ LastPost = LastPre

\* the service trusts an OVK derived from the latest seed of device d,
\* lists a credential of d, and is not migrating; d still holds the
\* previous seed
C36_Committed(d, cm) ==
  /\ SeedIsUpdating(seeds[d])
  /\ cm.next = None
  /\ cm.ovkm.ovk_jwk = DeriveOVK(seeds[d], cm.ovkm.r)
  /\ \E k \in 1 .. Len(devCreds[d]) : PubJWK(devCreds[d][k]) \in JwksOf(cm.creds)

\* the request of device d, computed from the response to its access,
\* reached Service.authn as it was sent and for the first time
C36_Login ==
  /\ last.op = "authn" /\ last.tamper = "none" /\ ~last.second
  /\ last.pre # None /\ last.prechq # None /\ out.chal # None
  /\ Val(last.prechq) = <<Val(out.chal)>>

\* C36: after the service has committed an OVK derived from a device's new
\* seed, the login of a device whose credential was retained succeeds
\* (Device.authn, then Service.authn returns true), although the device's
\* Seed still reports isUpdating().
C36_RetainedLogsIn ==
  (C36_Login /\ C36_Committed(last.dev, LastPre)) => last.ret = "true"

\* The same login as Device.authn of the published build makes it: taken
\* at the state in which the device has just received the response.
C36_PublishedLogsIn ==
  (JustAccessed /\ out.kind = "authn" /\ C36_Committed(out.dev, LastPost))
    => \E a \in {DeviceAuthnPublished(seeds[out.dev], devCreds[out.dev], SvcID, Val(out.chal),
                                       CredJWKs(LastPost),
                                       [r |-> LastPost.ovkm.r, mac |-> LastPost.ovkm.mac, next |-> <<>>],
                                       nsalt)} :
         /\ a.throw = "" /\ Val(a.req).updating = None
         /\ \E rq \in {Val(a.req)} :
              SvcAuthn(db[last.user], challengeDB[last.user], rq.cred_jwk, rq.sig, rq.updating, clock).ret
                = "true"
\* such a response has been received
C36_PublishedCase ==
  JustAccessed /\ out.kind = "authn" /\ C36_Committed(out.dev, LastPost)

\* the second part of a seamless Service.register added the credential
C38_Added ==
  /\ last.op = "register" /\ last.how = "added"
  /\ last.pre # None /\ db[last.user] # None /\ last.verified # None

\* C38: when a seamless Service.register and a Service.authn with an
\* update for the same user are handled between each other's awaits, the
\* credential register adds is bound to the OVK under which its signature
\* was verified, and it is not added while a migration is in progress.
C38_AddedAsVerified ==
  C38_Added
    => /\ \A k \in 1 .. Len(LastPost.creds) :
            LastPost.creds[k].jwk = LastReq.cred.jwk => LastPost.creds[k].ovk = Val(last.verified)
       /\ ~(LastPre.next # None /\ last.now - Val(LastPre.next).startTime <= migrating_date_ms)

====
